---- MODULE Spec2Model ----
(***************************************************************************)
(* Model of the articles resource service (src/src/api/articles.py,        *)
(* src/src/models/articles.py): one table, seven HTTP handlers.            *)
(*                                                                         *)
(* The twelve client columns are written and read by the same loops        *)
(* (setattr over model_dump().items(), one filter per search field); the   *)
(* model carries two of them: tags (the one column search matches with     *)
(* ILIKE) and urgency_score (an Integer column, matched with ==).          *)
(* Time is counted in days: one unit of the clock is timedelta(days=1).    *)
(***************************************************************************)
EXTENDS Integers, Sequences, FiniteSets, TLC

VARIABLES
    table,      \* the articles table: article_id -> row
    now,        \* the server clock: what datetime.now(UTC) returns
    resp,       \* the request just handled and its response, until delivered
    sess,       \* SpecConc: the ORM session of each in-flight PUT request
    commits     \* SpecConc: the PUT requests in the order they committed

vars == <<table, now, resp, sess, commits>>

\* ------------------------------------------------------------- bounds
MaxId == 2
MaxClock == 2
MaxPage == 2

\* ------------------------------------------------------------- constants
\* timedelta(hours=24), timedelta(days=1): one unit of the clock.
Day == 1
\* Query(10, ge=1, le=100): the largest limit the list endpoint accepts.
LimitMax == 100

None == "None"

Ids == 1 .. MaxId
Clock == 0 .. MaxClock
\* A timestamp a client writes in a request body: no reading of the clock.
ClientStamp == MaxClock + 5

\* Strings are sequences of characters.
TagValues == { <<"a">>, <<"A", "b">> }
ScoreValues == { 1, 2 }

\* class ArticlesCreate: the declared fields (all required).
ArticlesCreateFields == { "tags", "urgency_score" }
\* class Articles: the Column attributes.
Columns == { "article_id", "tags", "urgency_score", "create_date", "update_date" }
\* class Articles(Base): attributes of the mapped class that are no columns.
OtherAttrs == { "metadata", "registry", "__tablename__" }

\* hasattr(Articles, name)
HasAttr(name) == name \in Columns \cup OtherAttrs

Restrict(f, S) == [k \in S |-> f[k]]

\* The JSON bodies a client sends to POST / PUT / PATCH: two complete
\* payloads, the bodies that leave fields out, and a complete payload that
\* brings timestamps of its own.
RawBodies ==
    { [tags |-> <<"a">>, urgency_score |-> 1],
      [tags |-> <<"A", "b">>, urgency_score |-> 2],
      <<>>,
      [tags |-> <<"a">>],
      [tags |-> <<"a">>, urgency_score |-> 1,
       create_date |-> ClientStamp, update_date |-> ClientStamp] }

\* The complete payloads of the concurrent PUT requests.
ConcBodies == [tags : TagValues, urgency_score : ScoreValues]

\* Faulty variant: the schema keeps the keys it does not declare (extra = allow).
ArticlesCreate_AllowExtra(raw) ==
    IF ArticlesCreateFields \subseteq DOMAIN raw
    THEN [ok |-> TRUE, values |-> raw, fields_set |-> DOMAIN raw]
    ELSE [ok |-> FALSE, values |-> <<>>, fields_set |-> {}]

\* ArticlesCreate(**body): pydantic validation. Every declared field is
\* required; keys that are no declared field are ignored (extra = ignore).
ArticlesCreate(raw) ==
    IF ArticlesCreateFields \subseteq DOMAIN raw
    THEN [ok |-> TRUE,
          values |-> Restrict(raw, ArticlesCreateFields),
          fields_set |-> ArticlesCreateFields]
    ELSE [ok |-> FALSE, values |-> <<>>, fields_set |-> {}]

\* BaseModel.model_dump(exclude_unset=...)
ModelDump(m, exclude_unset) ==
    IF exclude_unset THEN Restrict(m.values, m.fields_set) ELSE m.values

\* for key, value in data.items(): setattr(record, key, value)
SetAttrs(record, data) ==
    [c \in DOMAIN record |-> IF c \in DOMAIN data THEN data[c] ELSE record[c]]

\* Faulty variant: the timestamp is written to the wrong column.
SetUpdateDate_WrongColumn(record, t) == [record EXCEPT !.create_date = t]

\* record.update_date = datetime.now(UTC)
SetUpdateDate(record, t) == [record EXCEPT !.update_date = t]

\* Session.commit() of a loaded, modified object: the unit of work emits
\* UPDATE ... SET for the attributes whose value differs from the loaded one,
\* WHERE article_id = the primary key.
Flush(row, loaded, pending) ==
    [c \in DOMAIN row |-> IF pending[c] # loaded[c] THEN pending[c] ELSE row[c]]

\* Faulty variant: the failed unit of work is left in the table.
Rollback_KeepsDirty(tbl, dirty) == dirty

\* db.rollback(): the session's pending changes (dirty: the table as the
\* session's uncommitted unit of work would leave it) are discarded.
Rollback(tbl, dirty) == tbl

\* Faulty variant: the row is not removed.
DeleteRow_Keeps(tbl, id) == tbl

\* db.delete(record); db.commit()
DeleteRow(tbl, id) == [i \in DOMAIN tbl \ {id} |-> tbl[i]]

\* db.add(new_record); db.commit()
InsertRow(tbl, row) == tbl @@ (row.article_id :> row)

\* article_id: primary key, assigned by the store: a key no stored row has.
FreshIds(tbl) == Ids \ DOMAIN tbl

\* What a second reading of the clock can return after a first reading t:
\* time does not run backwards, and the model stops the clock at MaxClock.
Later(t) == { u \in Clock : t <= u /\ u <= t + 1 }

NoResp == [op |-> "none", status |-> 0]

NoSess == [r \in {1, 2} |-> [pc |-> "idle"]]

Init ==
    /\ table = <<>>
    /\ now = 0
    /\ resp = NoResp
    /\ sess = NoSess
    /\ commits = <<>>

\* GET /api/v1/articles/{article_id}
get_articles_by_id(article_id) ==
    /\ now' = now
    /\ table' = table
    /\ resp' = IF article_id \notin DOMAIN table
               THEN [op |-> "get", article_id |-> article_id, status |-> 404]
               ELSE [op |-> "get", article_id |-> article_id, status |-> 200,
                     body |-> table[article_id]]
    /\ UNCHANGED <<sess, commits>>

\* POST /api/v1/articles
create_record(raw, t2, commit_ok) ==
    LET parsed == ArticlesCreate(raw)
        t1 == now
    IN
    /\ FreshIds(table) # {}
    /\ IF ~parsed.ok
       THEN /\ now' = now
            /\ table' = table
            /\ resp' = [op |-> "create", status |-> 422, keys |-> DOMAIN raw]
       ELSE \E id \in FreshIds(table) :
            LET data == ModelDump(parsed, TRUE)
                new_record == [article_id |-> id,
                               tags |-> data.tags,
                               urgency_score |-> data.urgency_score,
                               create_date |-> t1,
                               update_date |-> t2]
            IN  /\ now' = t2
                /\ IF commit_ok
                   THEN /\ table' = InsertRow(table, new_record)
                        /\ resp' = [op |-> "create", status |-> 200,
                                    keys |-> DOMAIN raw,
                                    data |-> data, body |-> new_record]
                   ELSE /\ table' = Rollback(table,
                                             InsertRow(table, new_record))
                        /\ resp' = [op |-> "create", status |-> 500,
                                    keys |-> DOMAIN raw, data |-> data]
    /\ UNCHANGED <<sess, commits>>

\* The body of both update handlers: lines 186-197 and 226-237 differ only
\* in model_dump's exclude_unset.
UpdateRecord(op, article_id, raw, exclude_unset, commit_ok) ==
    LET parsed == ArticlesCreate(raw)
        t == now
    IN
    /\ now' = now
    /\ IF ~parsed.ok
       THEN /\ table' = table
            /\ resp' = [op |-> op, article_id |-> article_id, status |-> 422,
                        keys |-> DOMAIN raw]
       ELSE IF article_id \notin DOMAIN table
       THEN /\ table' = table
            /\ resp' = [op |-> op, article_id |-> article_id, status |-> 404,
                        keys |-> DOMAIN raw]
       ELSE LET record == table[article_id]
                data == ModelDump(parsed, exclude_unset)
                pending == SetUpdateDate(SetAttrs(record, data), t)
            IN  IF commit_ok
                THEN /\ table' = [table EXCEPT ![article_id] =
                                      Flush(table[article_id], record, pending)]
                     /\ resp' = [op |-> op, article_id |-> article_id,
                                 status |-> 200, keys |-> DOMAIN raw,
                                 data |-> data, body |-> table'[article_id]]
                ELSE /\ table' = Rollback(table,
                                     [table EXCEPT ![article_id] = pending])
                     /\ resp' = [op |-> op, article_id |-> article_id,
                                 status |-> 500, keys |-> DOMAIN raw,
                                 data |-> data]
    /\ UNCHANGED <<sess, commits>>

\* PUT /api/v1/articles/{id}
update_articles_full(article_id, raw, commit_ok) ==
    UpdateRecord("put", article_id, raw, FALSE, commit_ok)

\* PATCH /api/v1/articles/{id}
update_articles_partial(article_id, raw, commit_ok) ==
    UpdateRecord("patch", article_id, raw, TRUE, commit_ok)

\* DELETE /api/v1/articles/{id}
delete_articles(article_id, commit_ok) ==
    /\ now' = now
    /\ IF article_id \notin DOMAIN table
       THEN /\ table' = table
            /\ resp' = [op |-> "delete", article_id |-> article_id,
                        status |-> 404]
       ELSE IF commit_ok
       THEN /\ table' = DeleteRow(table, article_id)
            /\ resp' = [op |-> "delete", article_id |-> article_id,
                        status |-> 200]
       ELSE /\ table' = Rollback(table, DeleteRow(table, article_id))
            /\ resp' = [op |-> "delete", article_id |-> article_id,
                        status |-> 500]
    /\ UNCHANGED <<sess, commits>>

\* ---------------------------------------------------------------- list
Min(a, b) == IF a <= b THEN a ELSE b

\* The orders a set of rows can come back in under ORDER BY column ASC|DESC:
\* every arrangement sorted on the column (rows equal on it in any order).
OrderBy(ids, column, descending) ==
    { s \in [1 .. Cardinality(ids) -> ids] :
        /\ \A i, j \in DOMAIN s : i # j => s[i] # s[j]
        /\ \A i, j \in DOMAIN s : i < j =>
             IF descending
             THEN table[s[i]][column] >= table[s[j]][column]
             ELSE table[s[i]][column] <= table[s[j]][column] }

\* Faulty variant: pages counted from 0.
PageOffset_FromZero(page, limit) == page * limit

\* offset = (page - 1) * limit
PageOffset(page, limit) == (page - 1) * limit

\* Query.offset(n)
RECURSIVE Offset(_, _)
Offset(rows, n) ==
    IF n = 0 \/ rows = <<>> THEN rows ELSE Offset(Tail(rows), n - 1)

\* Query.limit(k)
RECURSIVE Limit(_, _)
Limit(rows, k) ==
    IF k = 0 \/ rows = <<>> THEN <<>>
    ELSE <<Head(rows)>> \o Limit(Tail(rows), k - 1)

\* Query.filter(Articles.create_date >= cutoff), cutoff = now - days_back days
DaysBackFilter(ids, days_back, t) ==
    IF days_back = <<>> THEN ids
    ELSE { i \in ids : table[i].create_date >= t - days_back[1] * Day }

\* The Query(...) constraints of list_articles' parameters.
ValidListQuery(page, limit, days_back, sort_order) ==
    /\ page >= 1
    /\ limit >= 1 /\ limit <= LimitMax
    /\ days_back # <<>> => days_back[1] >= 0
    /\ sort_order \in {None, "asc", "desc"}

\* GET /api/v1/articles   (an optional integer is <<>> or <<n>>)
list_articles(page, limit, days_back, sort_by, sort_order) ==
    LET t == now
        q == [page |-> page, limit |-> limit, days_back |-> days_back,
              sort_by |-> sort_by, sort_order |-> sort_order]
        filtered == DaysBackFilter(DOMAIN table, days_back, t)
        page_of(s) == Limit(Offset([i \in DOMAIN s |-> table[s[i]]],
                                   PageOffset(page, limit)), limit)
    IN
    /\ now' = now
    /\ table' = table
    /\ IF ~ValidListQuery(page, limit, days_back, sort_order)
       THEN resp' = [op |-> "list", status |-> 422]
       ELSE IF sort_by = None
       THEN \E s \in OrderBy(filtered, "create_date", TRUE) :
                resp' = [op |-> "list", status |-> 200, q |-> q,
                         body |-> page_of(s)]
       ELSE IF ~HasAttr(sort_by)
       THEN resp' = [op |-> "list", status |-> 400, q |-> q]
       ELSE IF sort_by \notin Columns
       \* asc(column) / desc(column) of an attribute that is no column
       \* raises ArgumentError: except Exception turns it into a 500.
       THEN resp' = [op |-> "list", status |-> 500, q |-> q]
       ELSE \E s \in OrderBy(filtered, sort_by, sort_order # "asc") :
                resp' = [op |-> "list", status |-> 200, q |-> q,
                         body |-> page_of(s)]
    /\ UNCHANGED <<sess, commits>>

\* -------------------------------------------------------------- search
\* class ArticlesSearch: every field optional, default None.
ArticlesSearchFields == { "tags", "urgency_score", "create_date" }

SearchTagValues == { <<"a">>, <<"B">>, <<"_">> }

SearchBodies ==
    { Restrict(p, S) :
        p \in [tags : SearchTagValues, urgency_score : ScoreValues,
               create_date : Clock],
        S \in SUBSET ArticlesSearchFields }

ArticlesSearch(raw) ==
    [ok |-> TRUE,
     values |-> [f \in ArticlesSearchFields |->
                    IF f \in DOMAIN raw THEN raw[f] ELSE None],
     fields_set |-> DOMAIN raw \cap ArticlesSearchFields]

Lower(c) == CASE c = "A" -> "a" [] c = "B" -> "b" [] OTHER -> c

\* SQL LIKE on lower-cased operands: % matches any run, _ any one character.
RECURSIVE Like(_, _)
Like(s, pattern) ==
    IF pattern = <<>> THEN s = <<>>
    ELSE IF Head(pattern) = "%"
    THEN Like(s, Tail(pattern)) \/ (s # <<>> /\ Like(Tail(s), pattern))
    ELSE /\ s # <<>>
         /\ Head(pattern) = "_" \/ Lower(Head(pattern)) = Lower(Head(s))
         /\ Like(Tail(s), Tail(pattern))

\* column.ilike(f"%{value}%")
ILikeContains(s, value) == Like(s, <<"%">> \o value \o <<"%">>)

\* The filter one (field, value) of the payload appends.
FieldFilter(row, field, value) ==
    IF field = "tags" THEN ILikeContains(row.tags, value)
    ELSE row[field] = value

\* Articles.create_date >= now - timedelta(hours=24)
Last24h(row, t) == row.create_date >= t - Day

\* How the per-field filters are joined: and_(*filters).
JoinFilters(row, data) ==
    \A f \in DOMAIN data : HasAttr(f) => FieldFilter(row, f, data[f])

\* db.query(Articles).filter(and_(*filters))
SearchMatches(row, data, t) ==
    /\ "create_date" \notin DOMAIN data => Last24h(row, t)
    /\ JoinFilters(row, data)

\* POST /api/v1/articles/search
search_articles(raw) ==
    LET data == ModelDump(ArticlesSearch(raw), TRUE)
        t == now
    IN
    /\ now' = now
    /\ table' = table
    /\ resp' = [op |-> "search", status |-> 200, data |-> data,
                body |-> { table[i] : i \in
                             { j \in DOMAIN table :
                                 SearchMatches(table[j], data, t) } }]
    /\ UNCHANGED <<sess, commits>>

\* ------------------------------------------------ concurrent PUT requests
\* Lines 186-194 of one request: load the record, assign the payload.
PutBegin(r, article_id, raw) ==
    LET parsed == ArticlesCreate(raw)
        t == now
    IN
    /\ sess[r].pc = "idle"
    /\ now' = now
    /\ sess' = [sess EXCEPT ![r] =
          IF ~parsed.ok
          THEN [pc |-> "done", status |-> 422]
          ELSE IF article_id \notin DOMAIN table
          THEN [pc |-> "done", status |-> 404]
          ELSE LET record == table[article_id]
                   data == ModelDump(parsed, FALSE)
               IN  [pc |-> "loaded", article_id |-> article_id,
                    data |-> data, record |-> record,
                    pending |-> SetUpdateDate(SetAttrs(record, data), t)]]
    /\ UNCHANGED <<table, resp, commits>>

\* Lines 195-202 of one request: commit (or fail and roll back).
PutCommit(r, commit_ok) ==
    LET s == sess[r] IN
    /\ s.pc = "loaded"
    /\ now' = now
    /\ IF commit_ok /\ s.article_id \in DOMAIN table
       THEN /\ table' = [table EXCEPT ![s.article_id] =
                             Flush(table[s.article_id], s.record, s.pending)]
            /\ sess' = [sess EXCEPT ![r] =
                           [pc |-> "done", status |-> 200,
                            article_id |-> s.article_id, data |-> s.data]]
            /\ commits' = Append(commits, r)
       ELSE /\ table' = Rollback(table,
                                 IF s.article_id \in DOMAIN table
                                 THEN [table EXCEPT ![s.article_id] = s.pending]
                                 ELSE table)
            /\ sess' = [sess EXCEPT ![r] = [pc |-> "done", status |-> 500]]
            /\ commits' = commits
    /\ UNCHANGED resp

\* ------------------------------------------------------ specifications
\* No response is waiting to be delivered: the next request can be handled.
Idle == resp = NoResp

\* return ...: the response goes to the client.
Deliver ==
    /\ ~Idle
    /\ resp' = NoResp
    /\ UNCHANGED <<table, now, sess, commits>>

\* Time passes between requests.
Tick ==
    /\ Idle
    /\ now < MaxClock
    /\ now' = now + 1
    /\ UNCHANGED <<table, resp, sess, commits>>

Get == Idle /\ \E id \in Ids : get_articles_by_id(id)

Create ==
    /\ Idle
    /\ \E raw \in RawBodies, t2 \in Later(now), ok \in BOOLEAN :
          create_record(raw, t2, ok)

Put ==
    /\ Idle
    /\ \E id \in Ids, raw \in RawBodies, ok \in BOOLEAN :
          update_articles_full(id, raw, ok)

Patch ==
    /\ Idle
    /\ \E id \in Ids, raw \in RawBodies, ok \in BOOLEAN :
          update_articles_partial(id, raw, ok)

Delete == Idle /\ \E id \in Ids, ok \in BOOLEAN : delete_articles(id, ok)

List ==
    /\ Idle
    /\ \E page \in 1 .. MaxPage, limit \in {1, 2, LimitMax + 1},
          days_back \in {<<>>, <<0>>, <<1>>},
          sort_by \in {None, "urgency_score", "metadata", "bogus"},
          sort_order \in {None, "asc", "desc"} :
          list_articles(page, limit, days_back, sort_by, sort_order)

Search == Idle /\ \E raw \in SearchBodies : search_articles(raw)

ConcPut ==
    \E r \in {1, 2} :
        \/ \E id \in Ids, raw \in ConcBodies : PutBegin(r, id, raw)
        \/ \E ok \in BOOLEAN : PutCommit(r, ok)

Mutation == Create \/ Put \/ Patch \/ Delete

Read == Get \/ List \/ Search

\* The handlers one request at a time.
Next == Tick \/ Deliver \/ Mutation \/ Read
Spec == Init /\ [][Next]_vars

\* Two PUT requests in flight at once, each with a session of its own.
NextConc == Tick \/ Deliver \/ Create \/ ConcPut
SpecConc == Init /\ [][NextConc]_vars

\* ---------------------------------------------------------------- claims
IsUpdate(r) == r.op \in {"put", "patch"}

\* C1 (as claimed): every PATCH on an existing article is accepted whatever
\* subset of the fields its body supplies (empty and strict subsets too); it
\* overwrites exactly the supplied fields, keeps every omitted one, and sets
\* update_date to the time of the request. (A failed commit, status 500, is
\* C8's subject and is left aside here.)
C1_PatchSubsetAccepted ==
    [][(resp'.op = "patch" /\ resp'.article_id \in DOMAIN table
            /\ resp'.status # 500)
        => /\ resp'.status = 200
           /\ \A f \in ArticlesCreateFields :
                table'[resp'.article_id][f] =
                    IF f \in resp'.keys THEN resp'.data[f]
                    ELSE table[resp'.article_id][f]
           /\ table'[resp'.article_id].update_date = now'
           /\ table'[resp'.article_id].update_date
                >= table[resp'.article_id].update_date]_vars

\* C2 (as claimed): every successful PUT or PATCH leaves the article's
\* update_date strictly greater than it was, and create_date and article_id
\* as they were.
C2_UpdateDateStrictlyIncreases ==
    [][(IsUpdate(resp') /\ resp'.status = 200)
        => /\ table'[resp'.article_id].update_date
                > table[resp'.article_id].update_date
           /\ table'[resp'.article_id].create_date
                = table[resp'.article_id].create_date
           /\ table'[resp'.article_id].article_id = resp'.article_id]_vars

\* C2 (amended): every successful PUT or PATCH sets the article's update_date
\* to the clock's reading during the request, which is greater than or equal
\* to what it was (equal when the clock has not advanced since the last
\* write), and leaves create_date and article_id as they were.
C2_UpdateDateNeverDecreases ==
    [][(IsUpdate(resp') /\ resp'.status = 200)
        => /\ resp'.article_id \in DOMAIN table
           /\ table'[resp'.article_id].update_date = now'
           /\ table'[resp'.article_id].update_date
                >= table[resp'.article_id].update_date
           /\ table'[resp'.article_id].create_date
                = table[resp'.article_id].create_date
           /\ table'[resp'.article_id].article_id = resp'.article_id
           /\ table[resp'.article_id].article_id = resp'.article_id]_vars

\* C2 witness: a PUT or PATCH has succeeded on an article created at an
\* earlier reading of the clock.
C2_Witness ==
    /\ IsUpdate(resp) /\ resp.status = 200
    /\ table[resp.article_id].update_date = now
    /\ table[resp.article_id].create_date < now

\* C3 (as claimed): the record a successful create returns has create_date
\* equal to update_date and an article_id that no record stored at the time
\* of the call has.
C3_CreateDatesEqualAndIdFresh ==
    [][(resp'.op = "create" /\ resp'.status = 200)
        => /\ resp'.body.create_date = resp'.body.update_date
           /\ resp'.body.article_id \notin DOMAIN table]_vars

\* Case-insensitive substring containment, read off the two strings.
ContainsIgnoreCase(s, value) ==
    \E k \in 0 .. Len(s) :
        /\ k + Len(value) <= Len(s)
        /\ \A i \in 1 .. Len(value) : Lower(s[k + i]) = Lower(value[i])

\* The field criteria of a search payload: everything but the time criterion.
FieldCriteria(data) == DOMAIN data \ {"create_date"}

\* C4 (as claimed): a search with at least one field criterion returns
\* exactly the rows that match ANY of the supplied field conditions (equality;
\* case-insensitive containment for tags) and satisfy the time condition (the
\* supplied create_date, or else created within the last 24 hours). Stated
\* for tag criteria without LIKE wildcards.
C4_SearchMatchesAnyField ==
    (resp.op = "search" /\ FieldCriteria(resp.data) # {}
        /\ ("tags" \in DOMAIN resp.data => "_" \notin
                { resp.data.tags[i] : i \in DOMAIN resp.data.tags }))
    => resp.body =
         { table[i] : i \in
             { j \in DOMAIN table :
                 /\ \E f \in FieldCriteria(resp.data) :
                      IF f = "tags"
                      THEN ContainsIgnoreCase(table[j].tags, resp.data.tags)
                      ELSE table[j][f] = resp.data[f]
                 /\ IF "create_date" \in DOMAIN resp.data
                    THEN table[j].create_date = resp.data.create_date
                    ELSE table[j].create_date >= now - Day } }

\* body is in descending order on column.
Descending(body, column) ==
    \A i, j \in DOMAIN body : i < j => body[i][column] >= body[j][column]

\* C5 (as claimed): a list request (with valid page, limit, days_back and
\* sort_order) whose sort_by names no column of the article record fails
\* with status 400, never 500; with sort_by omitted the result is in
\* create_date descending order; with sort_by a column and sort_order omitted
\* it is in descending order on that column.
C5_SortByValidated ==
    (resp.op = "list" /\ resp.status # 422)
    => /\ (resp.q.sort_by # None /\ resp.q.sort_by \notin Columns)
            => resp.status = 400
       /\ resp.q.sort_by = None
            => resp.status = 200 /\ Descending(resp.body, "create_date")
       /\ (resp.q.sort_by \in Columns /\ resp.q.sort_order = None)
            => resp.status = 200 /\ Descending(resp.body, resp.q.sort_by)

\* The column and direction a list request sorts on.
C6_Column(q) == IF q.sort_by = None THEN "create_date" ELSE q.sort_by
C6_Descending(q) == q.sort_by = None \/ q.sort_order # "asc"

\* The rows a list request's days_back keeps.
C6_Filtered(q) ==
    { i \in DOMAIN table :
        q.days_back # <<>> =>
            table[i].create_date >= now - q.days_back[1] * Day }

\* C6: a list request with page P >= 1 and limit L in 1..100 (and a sort_by
\* that is a column, or none) succeeds and returns exactly the rows at
\* positions (P-1)*L+1 .. (P-1)*L+L of the days_back-filtered rows in sorted
\* order: at most L rows, and no rows (not an error) when (P-1)*L is at or
\* beyond the number of filtered rows.
C6_PageIsSliceOfSorted ==
    (resp.op = "list" /\ resp.status # 422
        /\ (resp.q.sort_by = None \/ resp.q.sort_by \in Columns))
    => /\ resp.status = 200
       /\ resp.q.page >= 1 /\ resp.q.limit >= 1 /\ resp.q.limit <= LimitMax
       /\ LET q == resp.q
              first == (q.page - 1) * q.limit
              n == Cardinality(C6_Filtered(q))
          IN  /\ Len(resp.body) <= q.limit
              /\ first >= n => resp.body = <<>>
              /\ \E s \in [1 .. n -> C6_Filtered(q)] :
                   /\ \A i, j \in 1 .. n : i # j => s[i] # s[j]
                   /\ \A i, j \in 1 .. n : i < j =>
                        IF C6_Descending(q)
                        THEN table[s[i]][C6_Column(q)]
                                >= table[s[j]][C6_Column(q)]
                        ELSE table[s[i]][C6_Column(q)]
                                <= table[s[j]][C6_Column(q)]
                   /\ Len(resp.body) =
                        IF first >= n THEN 0 ELSE Min(q.limit, n - first)
                   /\ \A i \in 1 .. Len(resp.body) :
                        resp.body[i] = table[s[first + i]]

\* C6 witness: the second page of one row each, with days_back leaving a row
\* out, holds a row.
C6_Witness ==
    /\ resp.op = "list" /\ resp.status = 200
    /\ resp.q.page = 2 /\ resp.q.limit = 1 /\ Len(resp.body) = 1
    /\ resp.q.days_back # <<>>

HasId(r) == r.op \in {"get", "put", "patch", "delete"}

C8_ErrorLeavesTableUnchanged ==
    [][resp'.status \in {400, 404, 422, 500} => table' = table]_vars

\* C8 witness: a PUT whose payload differs from the stored row has failed at
\* commit.
C8_Witness ==
    /\ resp.op = "put" /\ resp.status = 500
    /\ resp.article_id \in DOMAIN table
    /\ \E f \in ArticlesCreateFields :
          table[resp.article_id][f] # resp.data[f]

\* C9 (as claimed): once two PUT requests on the same article have both
\* committed, every data field of the stored row equals the payload of the
\* request that committed last.
C9_LastWriterWins ==
    (Len(commits) = 2
        /\ sess[commits[1]].article_id = sess[commits[2]].article_id)
    => \A f \in ArticlesCreateFields :
          table[sess[commits[2]].article_id][f] = sess[commits[2]].data[f]

\* C10: every stored article has create_date <= update_date, and both are
\* readings of the server clock (values the clock has shown so far), whatever
\* timestamps the request bodies carried.
C10_TimestampsFromClock ==
    \A i \in DOMAIN table :
        /\ table[i].create_date <= table[i].update_date
        /\ table[i].create_date \in 0 .. now
        /\ table[i].update_date \in 0 .. now

\* C10 witness: a PUT whose body carried a create_date and an update_date of
\* its own has succeeded.
C10_Witness ==
    /\ resp.op = "put" /\ resp.status = 200
    /\ {"create_date", "update_date"} \subseteq resp.keys
    /\ table[resp.article_id].update_date > table[resp.article_id].create_date
====
